---------------------------- MODULE Spec2Model ----------------------------
(***************************************************************************)
(* Model of the DinChatbot response-decision pipeline:                     *)
(*   app/api/chat.py            the /chat handler (orchestrator)           *)
(*   app/services/rule_engine.py  normaliser and keyword intent matcher    *)
(*   app/services/ai_service.py   Gemini call and the per-client AI quota  *)
(*   app/models/client.py       the Client row holding the quota counter   *)
(*                                                                         *)
(* Text is modelled as a sequence of characters, each character a string.  *)
(* The Danish letters are written "ae", "oe", "aa" (upper case "AE", "OE", *)
(* "AA"): each is ONE character of the sequence.  Canned replies are       *)
(* opaque strings, written in the same transliteration.                    *)
(***************************************************************************)
EXTENDS Integers, Sequences, FiniteSets, TLC

(***************************************************************************)
(* Bounds of the model                                                     *)
(***************************************************************************)
\* number of concurrently running tasks (chat requests / direct gate calls)
NumTasks == 2
\* largest configured ai_requests_limit explored
MaxLimit == 2
\* longest stored conversation explored, in turns
MaxStoredTurns == 12

(***************************************************************************)
(* Characters                                                              *)
(***************************************************************************)
LowerLetters ==
  <<"a","b","c","d","e","f","g","h","i","j","k","l","m","n","o","p","q","r",
    "s","t","u","v","w","x","y","z","ae","oe","aa">>

UpperLetters ==
  <<"A","B","C","D","E","F","G","H","I","J","K","L","M","N","O","P","Q","R",
    "S","T","U","V","W","X","Y","Z","AE","OE","AA">>

Digits == {"0","1","2","3","4","5","6","7","8","9"}

Whitespace == {" ", "\t", "\n"}

Range(s) == {s[i] : i \in DOMAIN s}

\* Python's \w for str patterns: letters, digits and the underscore
IsWordChar(c) == c \in Range(LowerLetters) \cup Range(UpperLetters) \cup Digits \cup {"_"}

\* Python's \s
IsSpace(c) == c \in Whitespace

\* str.lower() on one character
LowerChar(c) ==
  IF c \in Range(UpperLetters)
    THEN LowerLetters[CHOOSE i \in DOMAIN UpperLetters : UpperLetters[i] = c]
    ELSE c

\* str.lower()
lower(text) == [i \in DOMAIN text |-> LowerChar(text[i])]

\* str.strip(): drop leading and trailing whitespace
RECURSIVE FirstNonSpace(_, _)
FirstNonSpace(text, i) ==
  IF i <= Len(text) /\ IsSpace(text[i]) THEN FirstNonSpace(text, i + 1) ELSE i

RECURSIVE LastNonSpace(_, _)
LastNonSpace(text, i) ==
  IF i >= 1 /\ IsSpace(text[i]) THEN LastNonSpace(text, i - 1) ELSE i

\* mutant: the message is not trimmed
strip_Keep(text) == text

strip(text) == SubSeq(text, FirstNonSpace(text, 1), LastNonSpace(text, Len(text)))

\* str.split(): the maximal runs of non-whitespace characters, in order
\* the k-th smallest element of a set of positions
Kth(S, k) == CHOOSE s \in S : Cardinality({t \in S : t <= s}) = k

\* where the runs start and where they end
RunStarts(text) ==
  {i \in DOMAIN text : ~IsSpace(text[i]) /\ (i = 1 \/ IsSpace(text[i - 1]))}

RunEnds(text) ==
  {i \in DOMAIN text : ~IsSpace(text[i]) /\ (i = Len(text) \/ IsSpace(text[i + 1]))}

split(text) ==
  LET starts == RunStarts(text)
      ends == RunEnds(text)
  IN  [k \in 1..Cardinality(starts) |-> SubSeq(text, Kth(starts, k), Kth(ends, k))]

\* ' '.join(words)
RECURSIVE join(_)
join(words) ==
  IF words = <<>> THEN <<>>
  ELSE IF Len(words) = 1 THEN words[1]
  ELSE words[1] \o <<" ">> \o join(Tail(words))

\* len(text.split())
WordCount(text) == Len(split(text))

(***************************************************************************)
(* rule_engine.py: RuleEngine                                              *)
(***************************************************************************)
None == "None"

\* self.intents as written in __init__, in definition order
intents_defined ==
  <<
    [ name |-> "greeting",
      keywords |-> <<
        <<"h","e","j">>,
        <<"g","o","d","d","a","g">>,
        <<"h","e","l","l","o">>,
        <<"h","e","j","s","a">>,
        <<"h","a","l","l","oe","j">>,
        <<"h","e","y">>,
        <<"g","o","d","m","o","r","g","e","n">>,
        <<"g","o","d","a","f","t","e","n">>,
        <<"h","i">>,
        <<"d","a","v","s">>,
        <<"d","a","v">>
      >>,
      response_template |-> "Hej! Hvordan kan jeg hjaelpe dig i dag?",
      priority |-> 1 ],
    [ name |-> "opening_hours",
      keywords |-> <<
        <<"aa","b","n","i","n","g","s","t","i","d">>,
        <<"aa","b","n","i","n","g","s","t","i","d","e","r">>,
        <<"aa","b","e","n","t">>,
        <<"l","u","k","k","e","t">>,
        <<"aa","b","n","e","r">>,
        <<"l","u","k","k","e","r">>,
        <<"h","v","o","r","n","aa","r"," ","aa","b","n","e","r">>,
        <<"h","v","o","r","n","aa","r"," ","l","u","k","k","e","r">>,
        <<"aa","b","e","n">>,
        <<"l","u","k","k","e">>,
        <<"o","p","e","n","i","n","g">>,
        <<"h","o","u","r","s">>,
        <<"aa","b","e","n","t"," ","i"," ","d","a","g">>
      >>,
      response_template |-> "Vi har aabent mandag-fredag kl. 09:00-17:00, weekend 10:00-14:00.",
      priority |-> 2 ],
    [ name |-> "prices",
      keywords |-> <<
        <<"p","r","i","s">>,
        <<"p","r","i","s","e","r">>,
        <<"k","o","s","t","e","r">>,
        <<"h","o","n","o","r","a","r">>,
        <<"t","i","l","b","u","d">>,
        <<"h","v","a","d"," ","k","o","s","t","e","r">>,
        <<"p","r","i","s","o","v","e","r","s","l","a","g">>,
        <<"b","e","t","a","l","i","n","g">>,
        <<"b","e","t","a","l","e">>,
        <<"k","r">>,
        <<"k","r","o","n","e","r">>,
        <<"b","e","t","a","l","e">>,
        <<"p","r","i","s"," ","p","aa">>
      >>,
      response_template |-> "Priser afhaenger af den konkrete ydelse. Kontakt os gerne for et skraeddersyet tilbud.",
      priority |-> 2 ],
    [ name |-> "booking",
      keywords |-> <<
        <<"b","o","o","k">>,
        <<"b","o","o","k","i","n","g">>,
        <<"b","e","s","t","i","l">>,
        <<"a","f","t","a","l","e">>,
        <<"r","e","s","e","r","v","a","t","i","o","n">>,
        <<"t","i","d">>,
        <<"b","o","o","k"," ","e","n"," ","t","i","d">>,
        <<"r","e","s","e","r","v","e","r","e">>,
        <<"t","i","m","e">>,
        <<"b","e","s","t","i","l","l","e">>
      >>,
      response_template |-> "Du kan booke en tid via vores hjemmeside eller ringe til os.",
      priority |-> 2 ],
    [ name |-> "contact",
      keywords |-> <<
        <<"k","o","n","t","a","k","t">>,
        <<"t","e","l","e","f","o","n">>,
        <<"e","m","a","i","l">>,
        <<"m","a","i","l">>,
        <<"n","u","m","m","e","r">>,
        <<"r","i","n","g">>,
        <<"t","l","f">>,
        <<"r","i","n","g","e">>,
        <<"k","o","n","t","a","k","t","e">>,
        <<"f","aa"," ","f","a","t"," ","i">>
      >>,
      response_template |-> "Du kan kontakte os paa telefon +45 12 34 56 78 eller via email kontakt@example.dk.",
      priority |-> 2 ],
    [ name |-> "location",
      keywords |-> <<
        <<"a","d","r","e","s","s","e">>,
        <<"l","o","k","a","t","i","o","n">>,
        <<"f","i","n","d","e"," ","j","e","r">>,
        <<"h","v","o","r"," ","l","i","g","g","e","r">>,
        <<"p","a","r","k","e","r","i","n","g">>,
        <<"a","d","r","e","s","s","e">>,
        <<"b","e","l","i","g","g","e","n","h","e","d">>,
        <<"h","v","o","r"," ","e","r">>,
        <<"p","l","a","c","e","r","i","n","g">>,
        <<"h","v","o","r","d","a","n"," ","f","i","n","d","e","r"," ","j","e","g">>
      >>,
      response_template |-> "Vi holder til paa Eksempelvej 12, 1234 By. Der er gratis parkering ved bygningen.",
      priority |-> 2 ],
    [ name |-> "services",
      keywords |-> <<
        <<"y","d","e","l","s","e">>,
        <<"y","d","e","l","s","e","r">>,
        <<"s","e","r","v","i","c","e">>,
        <<"s","e","r","v","i","c","e","s">>,
        <<"t","i","l","b","u","d">>,
        <<"l","a","v","e","r"," ","i">>,
        <<"k","a","n"," ","i">>,
        <<"g","oe","r"," ","i">>,
        <<"h","v","a","d"," ","l","a","v","e","r">>
      >>,
      response_template |-> "Vi tilbyder [indsaet jeres ydelser]. Kontakt os for mere information om en specifik ydelse.",
      priority |-> 2 ],
    [ name |-> "shipping",
      keywords |-> <<
        <<"f","o","r","s","e","n","d","e","l","s","e">>,
        <<"l","e","v","e","r","i","n","g">>,
        <<"f","r","a","g","t">>,
        <<"l","e","v","e","r","i","n","g","s","t","i","d">>,
        <<"t","r","a","c","k">>,
        <<"t","r","a","c","k","i","n","g">>,
        <<"s","e","n","d","e","l","s","e">>,
        <<"l","e","v","e","r","e">>
      >>,
      response_template |-> "Vi leverer typisk inden for 1-3 hverdage. Du modtager tracking naar pakken er afsendt.",
      priority |-> 2 ],
    [ name |-> "returns",
      keywords |-> <<
        <<"r","e","t","u","r","n","e","r","i","n","g">>,
        <<"r","e","t","u","r">>,
        <<"b","y","t","t","e">>,
        <<"r","e","f","u","s","i","o","n">>,
        <<"f","o","r","t","r","y","d">>,
        <<"r","e","t","u","r","n","e","r","e">>,
        <<"o","m","b","y","t","n","i","n","g">>,
        <<"p","e","n","g","e"," ","r","e","t","u","r">>
      >>,
      response_template |-> "Du har 14 dages returret. Kontakt os, saa guider vi dig gennem processen.",
      priority |-> 2 ],
    [ name |-> "order_status",
      keywords |-> <<
        <<"o","r","d","r","e">>,
        <<"o","r","d","r","e","n","u","m","m","e","r">>,
        <<"m","i","n"," ","o","r","d","r","e">>,
        <<"o","r","d","r","e","s","t","a","t","u","s">>,
        <<"b","e","s","t","i","l","l","i","n","g">>,
        <<"m","i","n"," ","b","e","s","t","i","l","l","i","n","g">>,
        <<"s","t","a","t","u","s">>,
        <<"h","v","o","r"," ","e","r">>
      >>,
      response_template |-> "Send gerne dit ordrenummer, saa kan vi hjaelpe dig med at finde din ordre.",
      priority |-> 2 ],
    [ name |-> "payments",
      keywords |-> <<
        <<"b","e","t","a","l","i","n","g">>,
        <<"b","e","t","a","l","i","n","g","s","m","e","t","o","d","e","r">>,
        <<"k","o","r","t">>,
        <<"m","o","b","i","l","e","p","a","y">>,
        <<"f","a","k","t","u","r","a">>,
        <<"b","e","t","a","l","e">>,
        <<"b","e","t","a","l","i","n","g","s","m","u","l","i","g","h","e","d">>,
        <<"b","e","t","a","l","e"," ","m","e","d">>
      >>,
      response_template |-> "Vi tager imod kortbetaling, MobilePay og faktura.",
      priority |-> 2 ],
    [ name |-> "goodbye",
      keywords |-> <<
        <<"f","a","r","v","e","l">>,
        <<"h","e","j"," ","h","e","j">>,
        <<"t","a","k">>,
        <<"t","a","k"," ","f","o","r"," ","h","j","ae","l","p","e","n">>,
        <<"b","y","e">>,
        <<"g","o","o","d","b","y","e">>,
        <<"s","e","s">>,
        <<"g","o","d"," ","d","a","g">>
      >>,
      response_template |-> "Tak fordi du skrev! Kontakt os gerne igen hvis du har flere spoergsmaal.",
      priority |-> 1 ],
    [ name |-> "help",
      keywords |-> <<
        <<"h","j","ae","l","p">>,
        <<"h","j","ae","l","p","e">>,
        <<"s","u","p","p","o","r","t">>,
        <<"k","u","n","d","e","s","e","r","v","i","c","e">>,
        <<"a","s","s","i","s","t","a","n","c","e">>,
        <<"p","r","o","b","l","e","m">>,
        <<"i","s","s","u","e">>
      >>,
      response_template |-> "Jeg er her for at hjaelpe! Hvad kan jeg goere for dig?",
      priority |-> 2 ],
    [ name |-> "human_support",
      keywords |-> <<
        <<"m","e","n","n","e","s","k","e">>,
        <<"m","e","d","a","r","b","e","j","d","e","r">>,
        <<"t","a","l","e"," ","m","e","d">>,
        <<"r","i","g","t","i","g"," ","p","e","r","s","o","n">>,
        <<"a","g","e","n","t">>,
        <<"s","u","p","p","o","r","t">>,
        <<"k","u","n","d","e","s","e","r","v","i","c","e">>,
        <<"i","k","k","e"," ","r","o","b","o","t">>
      >>,
      response_template |-> "Selvfoelgelig! Du kan kontakte vores kundeservice paa telefon +45 12 34 56 78 eller email kontakt@example.dk.",
      priority |-> 3 ]
  >>

\* list.sort(key=priority, reverse=True): descending by priority; Python's
\* sort is stable also under reverse=True, so equal priorities keep their
\* definition order
RECURSIVE SortByPriority(_, _)
SortByPriority(list, p) ==
  IF p < 0 THEN <<>>
  ELSE SelectSeq(list, LAMBDA x : x.priority = p) \o SortByPriority(list, p - 1)

MaxPriority(list) ==
  CHOOSE p \in {list[i].priority : i \in DOMAIN list} :
    \A i \in DOMAIN list : list[i].priority <= p

\* mutant: the catalog is left in definition order
intents_Unsorted == intents_defined

\* self.intents after __init__
intents == SortByPriority(intents_defined, MaxPriority(intents_defined))

\* RuleEngine._normalize
\* re.sub(r'[^\w\s]', ' ', text)
StripPunctuation(text) ==
  [i \in DOMAIN text |->
     IF IsWordChar(text[i]) \/ IsSpace(text[i]) THEN text[i] ELSE " "]

\* mutant: the text is not lower-cased
_normalize_KeepCase(text) == join(split(StripPunctuation(text)))

_normalize(text) == join(split(StripPunctuation(lower(text))))

\* \b at the gap after position p of text (p = 0: before the first character):
\* exactly one side of the gap is a word character
WordCharAt(text, p) == p \in DOMAIN text /\ IsWordChar(text[p])

\* mutant: a keyword is found anywhere, also inside a longer word
IsBoundary_Any(text, p) == TRUE

IsBoundary(text, p) == WordCharAt(text, p) # WordCharAt(text, p + 1)

\* re.search(r'\b' + re.escape(keyword) + r'\b', text)
KeywordFound(keyword, text) ==
  \E i \in 1..(Len(text) - Len(keyword) + 1) :
     /\ SubSeq(text, i, i + Len(keyword) - 1) = keyword
     /\ IsBoundary(text, i - 1)
     /\ IsBoundary(text, i + Len(keyword) - 1)

IntentMatches(intent, text) ==
  \E k \in DOMAIN intent.keywords : KeywordFound(lower(intent.keywords[k]), text)

\* RuleEngine._match_intent: the first intent of self.intents one of whose
\* keywords is found; <<>> models None, <<intent>> a match
_match_intent(normalized_message) ==
  LET hits == {i \in DOMAIN intents : IntentMatches(intents[i], normalized_message)}
  IN  IF hits = {} THEN <<>>
      ELSE <<intents[CHOOSE i \in hits : \A j \in hits : i <= j]>>

EMPTY_MESSAGE_REPLY == "Skriv gerne en besked, saa hjaelper jeg :)"
RULE_FALLBACK_REPLY ==
  "Jeg forstod ikke helt. Kan du omformulere, eller vil du gerne tale med en medarbejder?"

\* RuleEngine.get_response
RuleEngine_get_response(message) ==
  IF message = <<>>
    THEN [reply |-> EMPTY_MESSAGE_REPLY, intent |-> None, is_fallback |-> TRUE]
    ELSE LET matched_intent == _match_intent(_normalize(message))
         IN  IF matched_intent # <<>>
               THEN [reply |-> matched_intent[1].response_template,
                     intent |-> matched_intent[1].name,
                     is_fallback |-> FALSE]
               ELSE [reply |-> RULE_FALLBACK_REPLY, intent |-> None, is_fallback |-> TRUE]

(***************************************************************************)
(* Inputs and stored data                                                  *)
(***************************************************************************)
Tasks == 1..NumTasks

\* rows of the clients table; "ukendt" is an id no row has
StoredClientIds == {"kunde1", "kunde2", "kunde3"}
RequestClientIds == StoredClientIds \cup {"ukendt"}
SessionIds == {"s1"}

\* len(message) > 1000
MaxMessageLen == 1000

Repeat(c, n) == [i \in 1..n |-> c]

\* the request messages explored
Messages ==
  { <<>>,
    <<" ", " ">>,
    <<" ", "H", "e", "j", "!">>,
    <<"x", "y", "z", " ", "q">>,
    Repeat("x", MaxMessageLen + 1) }

\* texts the Gemini call returns
AIReplies == {"Her er svaret", ""}

\* len(reply.split()) of those texts
ReplyWordCount(reply) ==
  CASE reply = "Her er svaret" -> 3
    [] reply = "" -> 0

\* Client.company_name / Client.website_url (website_url is nullable: <<>>)
client_info(client_id) ==
  CASE client_id = "kunde1" ->
         [company_name |-> <<"K","u","n","d","e"," ","1">>,
          website_url |-> <<"k","1",".","d","k">>]
    [] OTHER ->
         [company_name |-> <<"F","i","r","m","a">>, website_url |-> <<>>]

\* the decimal digits, to number stored texts
DigitChars == <<"0", "1", "2", "3", "4", "5", "6", "7", "8", "9">>

\* knowledge_service.get_knowledge_texts(client_id, db): the stored texts
KnowledgeTexts(client_id) ==
  CASE client_id = "kunde1" -> << <<"a"," ","b">>, <<"c">> >>
    [] client_id = "kunde2" -> [i \in 1..11 |-> <<"k", DigitChars[(i \div 10) + 1], DigitChars[(i % 10) + 1]>>]
    [] client_id = "kunde3" -> [i \in 1..10 |-> <<"v", DigitChars[(i \div 10) + 1], DigitChars[(i % 10) + 1]>>]
    [] OTHER -> <<>>

(***************************************************************************)
(* State                                                                   *)
(***************************************************************************)
VARIABLES
  clients,              \* clients table: id -> row (the AI columns)
  conversations,        \* session ids that have a Conversation row
  messages,             \* Message rows per conversation, oldest first
  pc,                   \* where each task is
  kind,                 \* "chat" (POST /chat) or "gate" (check_rate_limit called directly)
  request_data,         \* ChatRequest of the task
  message,              \* chat: request_data.message.strip()
  rule_response,        \* chat: <<>> before the rule attempt, <<d>> its result
  conversation_history, \* chat: the history list built from the last rows
  knowledge_base,       \* chat: result of get_knowledge_texts
  response_data,        \* chat: <<>> is None, <<d>> a response dict
  rl_client,            \* check_rate_limit: the Client row it loaded
  rl_result,            \* check_rate_limit: <<>> not returned yet, <<b>> returned b
  ai_request,           \* what get_response sent to Gemini: <<>> nothing yet
  outcome,              \* the ChatResponse returned: <<>> none yet
  http_status,          \* status of the HTTPException raised, 0 for none
  ai_calls,             \* number of chat.send_message calls made by the task
  increments,           \* number of "ai_requests_today += 1; commit" done by the task
  gate_calls,           \* number of check_rate_limit calls started by the task
  fault                 \* which store call of the task raised, "none" if none

db == <<clients, conversations, messages>>
locals == <<kind, rule_response, request_data, message, conversation_history, knowledge_base,
            response_data, rl_client, rl_result, ai_request, outcome, http_status>>
counts == <<ai_calls, increments, gate_calls, fault>>
vars == <<db, pc, locals, counts>>

NoRequest == [message |-> <<>>, client_id |-> "ukendt", session_id |-> "s1", use_ai |-> FALSE]

Init ==
  /\ \E limit \in 0..MaxLimit :
       clients =
         [id \in StoredClientIds |->
            [is_active |-> (id # "kunde3"),
             use_ai |-> (id # "kunde2"),
             ai_requests_today |-> 0,
             ai_requests_limit |-> IF id = "kunde1" THEN limit ELSE MaxLimit]]
  /\ conversations = {}
  /\ messages = [s \in SessionIds |-> <<>>]
  /\ pc = [r \in Tasks |-> "idle"]
  /\ kind = [r \in Tasks |-> "chat"]
  /\ request_data = [r \in Tasks |-> NoRequest]
  /\ message = [r \in Tasks |-> <<>>]
  /\ rule_response = [r \in Tasks |-> <<>>]
  /\ conversation_history = [r \in Tasks |-> <<>>]
  /\ knowledge_base = [r \in Tasks |-> <<>>]
  /\ response_data = [r \in Tasks |-> <<>>]
  /\ rl_client = [r \in Tasks |-> <<>>]
  /\ rl_result = [r \in Tasks |-> <<>>]
  /\ ai_request = [r \in Tasks |-> <<>>]
  /\ outcome = [r \in Tasks |-> <<>>]
  /\ http_status = [r \in Tasks |-> 0]
  /\ ai_calls = [r \in Tasks |-> 0]
  /\ increments = [r \in Tasks |-> 0]
  /\ gate_calls = [r \in Tasks |-> 0]
  /\ fault = [r \in Tasks |-> "none"]

(***************************************************************************)
(* Helpers of the handler                                                  *)
(***************************************************************************)
\* dict.get(key, default)
Get(d, key, default) == IF key \in DOMAIN d THEN d[key] ELSE default

\* mutant: the response drops tokens_used
ChatResponse_NoTokens(d) ==
  [reply |-> d.reply,
   intent |-> Get(d, "intent", None),
   is_ai |-> Get(d, "is_ai", FALSE),
   is_fallback |-> Get(d, "is_fallback", FALSE),
   tokens_used |-> <<>>]

\* ChatResponse(**d): the declared fields with their defaults; keys that are
\* no field of the model ("model", "cost", "error") are ignored
ChatResponse(d) ==
  [reply |-> d.reply,
   intent |-> Get(d, "intent", None),
   is_ai |-> Get(d, "is_ai", FALSE),
   is_fallback |-> Get(d, "is_fallback", FALSE),
   tokens_used |-> Get(d, "tokens_used", <<>>)]

TOO_LONG_REPLY == "Beskeden er for lang. Hold den venligst under 1000 tegn."
QUOTA_REPLY ==
  "Du har naaet graensen for AI-forespoergsler i dag. En medarbejder vil kontakte dig snart."
FINAL_FALLBACK_REPLY == "Jeg forstod ikke helt. Lad mig viderestille dig til en medarbejder."
CHAT_ERROR_REPLY == "Der opstod en fejl. Proev igen senere."
AI_ERROR_REPLY ==
  "Der opstod en fejl med AI-tjenesten. Lad mig viderestille dig til en medarbejder."

\* the task returns ChatResponse resp to its caller
Return(r, resp) ==
  /\ pc' = [pc EXCEPT ![r] = "done"]
  /\ outcome' = [outcome EXCEPT ![r] = <<resp>>]

\* mutant: the oldest n elements are taken
LastN_Oldest(list, n) ==
  IF Len(list) <= n THEN list ELSE SubSeq(list, 1, n)

\* the last n elements of a list: list[-n:]
LastN(list, n) ==
  IF Len(list) <= n THEN list ELSE SubSeq(list, Len(list) - n + 1, Len(list))

\* the first n elements of a list: list[:n]
FirstN(list, n) == IF Len(list) <= n THEN list ELSE SubSeq(list, 1, n)

(***************************************************************************)
(* chat.py: POST /chat, and direct calls of check_rate_limit.  A task is   *)
(* one request; tasks of different worker processes share the database, so *)
(* their steps interleave at every database or service call.               *)
(***************************************************************************)
\* a request arrives; tasks are numbered in the order they arrive
Receive(r) ==
  /\ pc[r] = "idle"
  /\ \A q \in Tasks : q < r => pc[q] # "idle"
  /\ \E m \in Messages, c \in RequestClientIds, s \in SessionIds, u \in BOOLEAN :
       request_data' = [request_data EXCEPT ![r] =
                          [message |-> m, client_id |-> c, session_id |-> s, use_ai |-> u]]
  /\ kind' = [kind EXCEPT ![r] = "chat"]
  /\ pc' = [pc EXCEPT ![r] = "validate"]
  /\ UNCHANGED <<db, message, rule_response, conversation_history, knowledge_base, response_data,
                 rl_client, rl_result, ai_request, outcome, http_status, counts>>

\* mutant: a message of exactly 1000 characters is rejected as well
Validate_Inclusive(r) ==
  /\ pc[r] = "validate"
  /\ LET stripped == strip(request_data[r].message)
     IN  /\ message' = [message EXCEPT ![r] = stripped]
         /\ IF stripped = <<>>
              THEN Return(r, ChatResponse([reply |-> EMPTY_MESSAGE_REPLY, is_fallback |-> TRUE]))
              ELSE IF Len(stripped) >= MaxMessageLen
                     THEN Return(r, ChatResponse([reply |-> TOO_LONG_REPLY, is_fallback |-> TRUE]))
                     ELSE /\ pc' = [pc EXCEPT ![r] = "get_client"]
                          /\ UNCHANGED outcome
  /\ UNCHANGED <<db, kind, rule_response, request_data, conversation_history, knowledge_base, response_data,
                 rl_client, rl_result, ai_request, http_status, counts>>

\* lines 66-77: strip and validate the message
Validate(r) ==
  /\ pc[r] = "validate"
  /\ LET stripped == strip(request_data[r].message)
     IN  /\ message' = [message EXCEPT ![r] = stripped]
         /\ IF stripped = <<>>
              THEN Return(r, ChatResponse([reply |-> EMPTY_MESSAGE_REPLY, is_fallback |-> TRUE]))
              ELSE IF Len(stripped) > MaxMessageLen
                     THEN Return(r, ChatResponse([reply |-> TOO_LONG_REPLY, is_fallback |-> TRUE]))
                     ELSE /\ pc' = [pc EXCEPT ![r] = "get_client"]
                          /\ UNCHANGED outcome
  /\ UNCHANGED <<db, kind, rule_response, request_data, conversation_history, knowledge_base, response_data,
                 rl_client, rl_result, ai_request, http_status, counts>>

\* lines 79-85: load the client; unknown or inactive raises HTTPException,
\* which lines 191-192 re-raise to the caller
GetClient(r) ==
  /\ pc[r] = "get_client"
  /\ LET id == request_data[r].client_id
     IN  IF id \notin DOMAIN clients
           THEN /\ pc' = [pc EXCEPT ![r] = "raised"]
                /\ http_status' = [http_status EXCEPT ![r] = 404]
           ELSE IF ~clients[id].is_active
                  THEN /\ pc' = [pc EXCEPT ![r] = "raised"]
                       /\ http_status' = [http_status EXCEPT ![r] = 403]
                  ELSE /\ pc' = [pc EXCEPT ![r] = "get_conversation"]
                       /\ UNCHANGED http_status
  /\ UNCHANGED <<db, kind, rule_response, request_data, message, conversation_history, knowledge_base,
                 response_data, rl_client, rl_result, ai_request, outcome, counts>>

\* lines 87-98: get or create the conversation of the session
GetConversation(r) ==
  /\ pc[r] = "get_conversation"
  /\ conversations' = conversations \cup {request_data[r].session_id}
  /\ pc' = [pc EXCEPT ![r] = "get_history"]
  /\ UNCHANGED <<clients, messages, locals, counts>>

\* one stored row as the handler passes it on: {"role": .., "content": ..}
HistoryEntry(row) == [role |-> row.role, content |-> row.content]

\* the newest rows of a conversation, oldest first
HistoryWindow == 10

\* lines 100-108: order_by(created_at.desc()).limit(10), then reversed()
GetHistory(r) ==
  /\ pc[r] = "get_history"
  /\ LET rows == LastN(messages[request_data[r].session_id], HistoryWindow)
     IN  conversation_history' =
           [conversation_history EXCEPT ![r] = [i \in DOMAIN rows |-> HistoryEntry(rows[i])]]
  /\ pc' = [pc EXCEPT ![r] = "rule"]
  /\ UNCHANGED <<db, kind, rule_response, request_data, message, knowledge_base, response_data,
                 rl_client, rl_result, ai_request, outcome, http_status, counts>>

\* mutant: one of the two flags is enough
AIEligible_Either(r) ==
  request_data[r].use_ai \/ clients[request_data[r].client_id].use_ai

\* line 128: request_data.use_ai and client.use_ai
AIEligible(r) ==
  request_data[r].use_ai /\ clients[request_data[r].client_id].use_ai

\* lines 110-128: the rule attempt and the choice of the next branch
RuleAttempt(r) ==
  /\ pc[r] = "rule"
  /\ rule_response' = [rule_response EXCEPT ![r] = <<RuleEngine_get_response(message[r])>>]
  /\ IF ~rule_response'[r][1].is_fallback
       THEN /\ response_data' = [response_data EXCEPT ![r] = rule_response'[r]]
            /\ pc' = [pc EXCEPT ![r] = "final"]
            /\ UNCHANGED gate_calls
       ELSE IF AIEligible(r)
              THEN /\ pc' = [pc EXCEPT ![r] = "rl_query"]
                   /\ gate_calls' = [gate_calls EXCEPT ![r] = @ + 1]
                   /\ UNCHANGED response_data
              ELSE /\ pc' = [pc EXCEPT ![r] = "final"]
                   /\ UNCHANGED <<response_data, gate_calls>>
  /\ UNCHANGED <<db, kind, request_data, message, conversation_history, knowledge_base,
                 rl_client, rl_result, ai_request, outcome, http_status,
                 ai_calls, increments, fault>>

(***************************************************************************)
(* ai_service.py: GeminiService.check_rate_limit                           *)
(***************************************************************************)
\* check_rate_limit is called directly (not through /chat)
CallGate(r) ==
  /\ pc[r] = "idle"
  /\ \A q \in Tasks : q < r => pc[q] # "idle"
  /\ \E c \in RequestClientIds :
       request_data' = [request_data EXCEPT ![r] = [NoRequest EXCEPT !.client_id = c]]
  /\ kind' = [kind EXCEPT ![r] = "gate"]
  /\ pc' = [pc EXCEPT ![r] = "rl_query"]
  /\ gate_calls' = [gate_calls EXCEPT ![r] = @ + 1]
  /\ UNCHANGED <<db, message, rule_response, conversation_history, knowledge_base, response_data,
                 rl_client, rl_result, ai_request, outcome, http_status,
                 ai_calls, increments, fault>>

\* mutant: /chat ignores a denial and goes on to the AI call
GateReturns_IgnoreDenial(r, allowed) ==
  /\ rl_result' = [rl_result EXCEPT ![r] = <<allowed>>]
  /\ pc' = [pc EXCEPT ![r] = IF kind[r] = "gate" THEN "done" ELSE "get_knowledge"]
  /\ UNCHANGED outcome

\* check_rate_limit returns `allowed`; in /chat, lines 130-134 of chat.py
\* turn a denial into the quota reply and go on to the knowledge base otherwise
GateReturns(r, allowed) ==
  /\ rl_result' = [rl_result EXCEPT ![r] = <<allowed>>]
  /\ IF kind[r] = "gate"
       THEN /\ pc' = [pc EXCEPT ![r] = "done"]
            /\ UNCHANGED outcome
       ELSE IF ~allowed
              THEN Return(r, ChatResponse([reply |-> QUOTA_REPLY, is_fallback |-> TRUE]))
              ELSE /\ pc' = [pc EXCEPT ![r] = "get_knowledge"]
                   /\ UNCHANGED outcome

\* mutant: a client id without a row is let through
RL_Query_UnknownAllowed(r) ==
  /\ pc[r] = "rl_query"
  /\ LET id == request_data[r].client_id
     IN  IF id \notin DOMAIN clients
           THEN /\ GateReturns(r, TRUE)
                /\ UNCHANGED rl_client
           ELSE /\ rl_client' = [rl_client EXCEPT ![r] = <<clients[id]>>]
                /\ pc' = [pc EXCEPT ![r] = "rl_compare"]
                /\ UNCHANGED <<rl_result, outcome>>
  /\ UNCHANGED <<db, kind, rule_response, request_data, message, conversation_history, knowledge_base,
                 response_data, ai_request, http_status, counts>>

\* lines 198-201: load the client row; no row: return False
RL_Query(r) ==
  /\ pc[r] = "rl_query"
  /\ LET id == request_data[r].client_id
     IN  IF id \notin DOMAIN clients
           THEN /\ GateReturns(r, FALSE)
                /\ UNCHANGED rl_client
           ELSE /\ rl_client' = [rl_client EXCEPT ![r] = <<clients[id]>>]
                /\ pc' = [pc EXCEPT ![r] = "rl_compare"]
                /\ UNCHANGED <<rl_result, outcome>>
  /\ UNCHANGED <<db, kind, rule_response, request_data, message, conversation_history, knowledge_base,
                 response_data, ai_request, http_status, counts>>

\* mutant: the limit test off by one (> for >=)
LimitReached_Strict(client) == client.ai_requests_today > client.ai_requests_limit

\* line 205: the limit test on the loaded row
LimitReached(client) == client.ai_requests_today >= client.ai_requests_limit

\* lines 205-214: limit reached: return False
RL_Compare(r) ==
  /\ pc[r] = "rl_compare"
  /\ IF LimitReached(rl_client[r][1])
       THEN GateReturns(r, FALSE)
       ELSE /\ pc' = [pc EXCEPT ![r] = "rl_increment"]
            /\ UNCHANGED <<rl_result, outcome>>
  /\ UNCHANGED <<db, kind, rule_response, request_data, message, conversation_history, knowledge_base,
                 response_data, rl_client, ai_request, http_status, counts>>

\* line 217: client.ai_requests_today += 1, on the row that was loaded
Incremented(client) == [client EXCEPT !.ai_requests_today = @ + 1]

\* mutant: the increment is written to every client's row
RL_Increment_AllClients(r) ==
  /\ pc[r] = "rl_increment"
  /\ clients' = [c \in DOMAIN clients |-> Incremented(clients[c])]
  /\ increments' = [increments EXCEPT ![r] = @ + 1]
  /\ GateReturns(r, TRUE)
  /\ UNCHANGED <<conversations, messages, kind, rule_response, request_data, message, conversation_history,
                 knowledge_base, response_data, rl_client, ai_request, http_status,
                 ai_calls, gate_calls, fault>>

\* lines 216-220: write the incremented counter, commit, return True
RL_Increment(r) ==
  /\ pc[r] = "rl_increment"
  /\ LET id == request_data[r].client_id
     IN  clients' = [clients EXCEPT ![id].ai_requests_today =
                       Incremented(rl_client[r][1]).ai_requests_today]
  /\ increments' = [increments EXCEPT ![r] = @ + 1]
  /\ GateReturns(r, TRUE)
  /\ UNCHANGED <<conversations, messages, kind, rule_response, request_data, message, conversation_history,
                 knowledge_base, response_data, rl_client, ai_request, http_status,
                 ai_calls, gate_calls, fault>>

\* a direct check_rate_limit call has returned; its caller makes the next call
NextCall(r) ==
  /\ pc[r] = "done"
  /\ kind[r] = "gate"
  /\ pc' = [pc EXCEPT ![r] = "idle"]
  /\ request_data' = [request_data EXCEPT ![r] = NoRequest]
  /\ rl_client' = [rl_client EXCEPT ![r] = <<>>]
  /\ rl_result' = [rl_result EXCEPT ![r] = <<>>]
  /\ gate_calls' = [gate_calls EXCEPT ![r] = 0]
  /\ increments' = [increments EXCEPT ![r] = 0]
  /\ kind' = [kind EXCEPT ![r] = "chat"]
  /\ UNCHANGED <<db, message, rule_response, conversation_history, knowledge_base, response_data,
                 ai_request, outcome, http_status, ai_calls, fault>>

(***************************************************************************)
(* chat.py lines 136-152 and ai_service.py: GeminiService.get_response     *)
(***************************************************************************)
\* lines 136-140: fetch the knowledge texts of the client
GetKnowledge(r) ==
  /\ pc[r] = "get_knowledge"
  /\ knowledge_base' = [knowledge_base EXCEPT ![r] = KnowledgeTexts(request_data[r].client_id)]
  /\ pc' = [pc EXCEPT ![r] = "ai_call"]
  /\ UNCHANGED <<db, kind, rule_response, request_data, message, conversation_history, response_data,
                 rl_client, rl_result, ai_request, outcome, http_status, counts>>

\* for i, kb in enumerate(knowledge_base[:10])
MaxKnowledgeSources == 10
\* for msg in conversation_history[-5:]
MaxHistoryForwarded == 5

\* one history entry as handed to start_chat
GeminiEntry(msg) ==
  [role |-> IF msg.role = "assistant" THEN "model" ELSE "user", parts |-> msg.content]

\* word counts of the fixed parts of the prompt
BasePromptWords == 115
KnowledgeHeaderWords == 7
PageHeaderWords == 4
WebsiteLabelWords == 2
ClosingWords == 16
QuestionLabelWords == 2
AnswerLabelWords == 7

RECURSIVE KnowledgeWords(_)
KnowledgeWords(kb) ==
  IF kb = <<>> THEN 0
  ELSE PageHeaderWords + WordCount(kb[1]) + KnowledgeWords(Tail(kb))

\* len(_build_system_prompt(...).split())
SystemPromptWords(knowledge, info) ==
  BasePromptWords + WordCount(info.company_name)
  + (IF knowledge # <<>> THEN KnowledgeHeaderWords + KnowledgeWords(knowledge) ELSE 0)
  + (IF info.website_url # <<>> THEN WebsiteLabelWords + WordCount(info.website_url) ELSE 0)
  + ClosingWords

\* len(full_prompt.split())
FullPromptWords(req) ==
  SystemPromptWords(req.knowledge, req.client_info)
  + QuestionLabelWords + WordCount(req.message) + AnswerLabelWords

\* lines 52-87: build the prompt and the history, send the message to Gemini
AISend(r) ==
  /\ pc[r] = "ai_call"
  /\ ai_request' = [ai_request EXCEPT ![r] =
       << [message |-> message[r],
           knowledge |-> FirstN(knowledge_base[r], MaxKnowledgeSources),
           client_info |-> client_info(request_data[r].client_id),
           chat_history |->
             LET last == LastN(conversation_history[r], MaxHistoryForwarded)
             IN  [i \in DOMAIN last |-> GeminiEntry(last[i])]] >>]
  /\ ai_calls' = [ai_calls EXCEPT ![r] = @ + 1]
  /\ pc' = [pc EXCEPT ![r] = "ai_wait"]
  /\ UNCHANGED <<db, kind, rule_response, request_data, message, conversation_history, knowledge_base,
                 response_data, rl_client, rl_result, outcome, http_status,
                 increments, gate_calls, fault>>

\* mutant: a successful answer is not labelled "ai_response"
AISuccess_NoIntent(reply, req) ==
  [reply |-> reply,
   is_ai |-> TRUE,
   is_fallback |-> FALSE,
   intent |-> None,
   tokens_used |-> <<FullPromptWords(req) + ReplyWordCount(reply)>>,
   model |-> "gemini-1.5-pro",
   cost |-> 0]

\* mutant: a successful answer is flagged as a fallback
AISuccess_AsFallback(reply, req) ==
  [reply |-> reply,
   is_ai |-> TRUE,
   is_fallback |-> TRUE,
   intent |-> "ai_response",
   tokens_used |-> <<FullPromptWords(req) + ReplyWordCount(reply)>>,
   model |-> "gemini-1.5-pro",
   cost |-> 0]

\* lines 103-111: the dict returned on success
AISuccess(reply, req) ==
  [reply |-> reply,
   is_ai |-> TRUE,
   is_fallback |-> FALSE,
   intent |-> "ai_response",
   tokens_used |-> <<FullPromptWords(req) + ReplyWordCount(reply)>>,
   model |-> "gemini-1.5-pro",
   cost |-> 0]

\* mutant: the failure dict claims to be an AI answer
AIFailure_IsAI ==
  [reply |-> AI_ERROR_REPLY,
   is_ai |-> TRUE,
   is_fallback |-> TRUE,
   intent |-> None,
   error |-> "error"]

\* lines 120-126: the dict returned when anything in the try block raised
AIFailure ==
  [reply |-> AI_ERROR_REPLY,
   is_ai |-> FALSE,
   is_fallback |-> TRUE,
   intent |-> None,
   error |-> "error"]

\* lines 89-111: Gemini answered with a text
AIReturn(r) ==
  /\ pc[r] = "ai_wait"
  /\ \E reply \in AIReplies :
       response_data' = [response_data EXCEPT ![r] = <<AISuccess(reply, ai_request[r][1])>>]
  /\ pc' = [pc EXCEPT ![r] = "final"]
  /\ UNCHANGED <<db, kind, rule_response, request_data, message, conversation_history, knowledge_base,
                 rl_client, rl_result, ai_request, outcome, http_status, counts>>

\* mutant: a failed call is retried through the gate
AIFail_Retry(r) ==
  /\ pc[r] = "ai_wait"
  /\ pc' = [pc EXCEPT ![r] = "rl_query"]
  /\ UNCHANGED <<db, locals, counts>>

\* mutant: a failed call gives the quota slot back
AIFail_Refund(r) ==
  /\ pc[r] = "ai_wait"
  /\ response_data' = [response_data EXCEPT ![r] = <<AIFailure>>]
  /\ clients' = [clients EXCEPT ![request_data[r].client_id].ai_requests_today =
                    IF @ > 0 THEN @ - 1 ELSE 0]
  /\ pc' = [pc EXCEPT ![r] = "final"]
  /\ UNCHANGED <<conversations, messages, kind, rule_response, request_data, message,
                 conversation_history, knowledge_base, rl_client, rl_result, ai_request,
                 outcome, http_status, counts>>

\* lines 113-126: send_message raised, or response.text did (malformed answer)
AIFail(r) ==
  /\ pc[r] = "ai_wait"
  /\ response_data' = [response_data EXCEPT ![r] = <<AIFailure>>]
  /\ pc' = [pc EXCEPT ![r] = "final"]
  /\ UNCHANGED <<db, kind, rule_response, request_data, message, conversation_history, knowledge_base,
                 rl_client, rl_result, ai_request, outcome, http_status, counts>>

\* lines 84-87: send_message is called without a timeout; Gemini never answers
AIHang(r) ==
  /\ pc[r] = "ai_wait"
  /\ pc' = [pc EXCEPT ![r] = "ai_hung"]
  /\ UNCHANGED <<db, locals, counts>>

(***************************************************************************)
(* chat.py lines 163-202                                                   *)
(***************************************************************************)
\* mutant: the final fallback replaces whatever response there is
FinalFallback_Always(r) ==
  /\ pc[r] = "final"
  /\ response_data' = [response_data EXCEPT ![r] =
       << [reply |-> FINAL_FALLBACK_REPLY, is_fallback |-> TRUE, intent |-> None] >>]
  /\ pc' = [pc EXCEPT ![r] = "save"]
  /\ UNCHANGED <<db, kind, rule_response, request_data, message, conversation_history, knowledge_base,
                 rl_client, rl_result, ai_request, outcome, http_status, counts>>

\* lines 163-169: no response so far: the final fallback
FinalFallback(r) ==
  /\ pc[r] = "final"
  /\ response_data' = [response_data EXCEPT ![r] =
       IF @ = <<>>
         THEN << [reply |-> FINAL_FALLBACK_REPLY, is_fallback |-> TRUE, intent |-> None] >>
         ELSE @]
  /\ pc' = [pc EXCEPT ![r] = "save"]
  /\ UNCHANGED <<db, kind, rule_response, request_data, message, conversation_history, knowledge_base,
                 rl_client, rl_result, ai_request, outcome, http_status, counts>>

\* lines 172-184: the two Message rows
UserRow(text) ==
  [role |-> "user", content |-> text, intent |-> None, is_ai |-> FALSE, tokens_used |-> <<>>]

BotRow(d) ==
  [role |-> "assistant", content |-> d.reply, intent |-> Get(d, "intent", None),
   is_ai |-> Get(d, "is_ai", FALSE), tokens_used |-> Get(d, "tokens_used", <<>>)]

\* mutant: the two rows replace the stored turns of the conversation
SaveMessages_Replace(r) ==
  /\ pc[r] = "save"
  /\ messages' = [messages EXCEPT ![request_data[r].session_id] =
                    <<UserRow(message[r]), BotRow(response_data[r][1])>>]
  /\ Return(r, ChatResponse(response_data[r][1]))
  /\ UNCHANGED <<clients, conversations, kind, rule_response, request_data, message, conversation_history,
                 knowledge_base, response_data, rl_client, rl_result, ai_request,
                 http_status, counts>>

\* lines 171-189: store both rows, commit, return the response
SaveMessages(r) ==
  /\ pc[r] = "save"
  /\ messages' = [messages EXCEPT ![request_data[r].session_id] =
                    @ \o <<UserRow(message[r]), BotRow(response_data[r][1])>>]
  /\ Return(r, ChatResponse(response_data[r][1]))
  /\ UNCHANGED <<clients, conversations, kind, rule_response, request_data, message, conversation_history,
                 knowledge_base, response_data, rl_client, rl_result, ai_request,
                 http_status, counts>>

\* the store calls of the handler that can raise
StoreCallAt(p) ==
  CASE p = "get_conversation" -> "conversation"
    [] p = "get_history" -> "history"
    [] p = "get_knowledge" -> "knowledge"
    [] p = "save" -> "save"
    [] OTHER -> "none"

\* mutant: the exception of a store call is re-raised to the caller
ExceptHandler_Reraise(r) ==
  /\ StoreCallAt(pc[r]) # "none"
  /\ fault' = [fault EXCEPT ![r] = StoreCallAt(pc[r])]
  /\ pc' = [pc EXCEPT ![r] = "raised"]
  /\ http_status' = [http_status EXCEPT ![r] = 500]
  /\ UNCHANGED <<db, kind, rule_response, request_data, message, conversation_history,
                 knowledge_base, response_data, rl_client, rl_result, ai_request, outcome,
                 ai_calls, increments, gate_calls>>

\* mutant: the handler answers a fault with the final fallback reply
ExceptHandler_FinalFallback(r) ==
  /\ StoreCallAt(pc[r]) # "none"
  /\ fault' = [fault EXCEPT ![r] = StoreCallAt(pc[r])]
  /\ Return(r, ChatResponse([reply |-> FINAL_FALLBACK_REPLY, is_fallback |-> TRUE]))
  /\ UNCHANGED <<db, kind, rule_response, request_data, message, conversation_history, knowledge_base,
                 response_data, rl_client, rl_result, ai_request, http_status,
                 ai_calls, increments, gate_calls>>

\* lines 193-202: a store call raised; the handler answers with the error reply
ExceptHandler(r) ==
  /\ StoreCallAt(pc[r]) # "none"
  /\ fault' = [fault EXCEPT ![r] = StoreCallAt(pc[r])]
  /\ Return(r, ChatResponse([reply |-> CHAT_ERROR_REPLY, is_fallback |-> TRUE]))
  /\ UNCHANGED <<db, kind, rule_response, request_data, message, conversation_history, knowledge_base,
                 response_data, rl_client, rl_result, ai_request, http_status,
                 ai_calls, increments, gate_calls>>

(***************************************************************************)
(* Requests whose text exercises the validation bounds and the catalog     *)
(***************************************************************************)
\* str.upper() on one character and on a text
UpperChar(c) ==
  IF c \in Range(LowerLetters)
    THEN UpperLetters[CHOOSE i \in DOMAIN LowerLetters : LowerLetters[i] = c]
    ELSE c

upper(text) == [i \in DOMAIN text |-> UpperChar(text[i])]

\* every keyword of the catalog
Keywords ==
  UNION { Range(intents_defined[i].keywords) : i \in DOMAIN intents_defined }

\* the first and the second keyword of every intent
LeadKeywords == [i \in DOMAIN intents_defined |-> intents_defined[i].keywords[1]]
NextKeywords == [i \in DOMAIN intents_defined |-> intents_defined[i].keywords[2]]

\* messages around the length bound of line 73
LengthMessages ==
  { <<"x">>,
    Repeat("x", MaxMessageLen),
    <<" ">> \o Repeat("x", MaxMessageLen) \o <<" ", "\n">>,
    <<"h", "e", "j", " ">> \o Repeat("x", MaxMessageLen - 4),
    Repeat("x", MaxMessageLen + 1),
    <<"\t">> \o Repeat("x", MaxMessageLen + 1) \o <<" ">>,
    <<"h", "e", "j", " ">> \o Repeat("x", MaxMessageLen - 3) }

\* one keyword in several letter cases, between punctuation and other words
SingleKeywordMessages ==
  UNION { { kw,
            <<"(">> \o upper(kw) \o <<")", "!">>,
            <<UpperChar(kw[1])>> \o Tail(kw) \o <<"?">>,
            <<"q", "q", " ">> \o kw \o <<",", " ", "z", "z", ".">> } : kw \in Keywords }

\* a keyword glued to further word characters
GluedKeywordMessages ==
  UNION { { kw \o <<"s", "h", "e", "l", "f">>,
            <<"q", "x">> \o kw,
            kw \o <<"_">>,
            <<"7">> \o kw } : kw \in Keywords }

\* keywords of two intents, in both orders and in different numbers
TwoIntentMessages ==
  UNION { IF p[1] = p[2] THEN {} ELSE LET i == p[1]  j == p[2] IN
          { LeadKeywords[i] \o <<" ">> \o LeadKeywords[j],
            LeadKeywords[i] \o <<",", " ">> \o NextKeywords[i] \o <<" ">> \o LeadKeywords[j],
            LeadKeywords[j] \o <<" ">> \o upper(NextKeywords[i]) } :
          p \in (DOMAIN intents_defined) \X (DOMAIN intents_defined) }

\* "Hvornaar har I aabent?"
ScenarioMessages ==
  { <<"H","v","o","r","n","aa","r"," ","h","a","r"," ","I"," ","aa","b","e","n","t","?">> }

TextMessages ==
  LengthMessages \cup ScenarioMessages \cup SingleKeywordMessages \cup GluedKeywordMessages \cup TwoIntentMessages

\* a request with one of these texts arrives
ReceiveText(r) ==
  /\ pc[r] = "idle"
  /\ \A q \in Tasks : q < r => pc[q] # "idle"
  /\ \E m \in TextMessages, c \in RequestClientIds, u \in BOOLEAN :
       /\ m \notin LengthMessages => (c = "kunde2" /\ ~u)
       /\ request_data' = [request_data EXCEPT ![r] =
                             [message |-> m, client_id |-> c, session_id |-> "s1", use_ai |-> u]]
  /\ kind' = [kind EXCEPT ![r] = "chat"]
  /\ pc' = [pc EXCEPT ![r] = "validate"]
  /\ UNCHANGED <<db, message, rule_response, conversation_history, knowledge_base, response_data,
                 rl_client, rl_result, ai_request, outcome, http_status, counts>>

(***************************************************************************)
(* Specifications                                                          *)
(***************************************************************************)
Step(r) ==
  \/ Receive(r)
  \/ Validate(r)
  \/ GetClient(r)
  \/ GetConversation(r)
  \/ GetHistory(r)
  \/ RuleAttempt(r)
  \/ CallGate(r)
  \/ RL_Query(r)
  \/ RL_Compare(r)
  \/ RL_Increment(r)
  \/ GetKnowledge(r)
  \/ AISend(r)
  \/ AIReturn(r)
  \/ AIFail(r)
  \/ AIHang(r)
  \/ FinalFallback(r)
  \/ SaveMessages(r)
  \/ ExceptHandler(r)

Next == \E r \in Tasks : Step(r)

Spec == Init /\ [][Next]_vars

\* a task that is not in the middle of handling its request
Quiescent(q) == pc[q] \in {"idle", "done", "raised", "ai_hung"}

\* one task at a time: the requests are handled one after the other
SeqNext == \E r \in Tasks : (\A q \in Tasks \ {r} : Quiescent(q)) /\ Step(r)

SeqSpec == Init /\ [][SeqNext]_vars

\* Message rows stored by earlier requests: user and assistant turns in turn,
\* numbered in the order they were stored
StoredTurn(k) ==
  [role |-> IF k % 2 = 1 THEN "user" ELSE "assistant",
   content |-> <<"t", DigitChars[(k \div 10) + 1], DigitChars[(k % 10) + 1]>>,
   intent |-> None, is_ai |-> FALSE, tokens_used |-> <<>>]

StoredConversation(n) == [k \in 1..n |-> StoredTurn(k)]

\* a conversation of up to MaxStoredTurns turns is stored, every client is
\* active and has AI switched on
ContextInit ==
  /\ clients =
       [id \in StoredClientIds |->
          [is_active |-> TRUE, use_ai |-> TRUE, ai_requests_today |-> 0,
           ai_requests_limit |-> MaxLimit]]
  /\ \E n \in 0..MaxStoredTurns :
       /\ messages = [s \in SessionIds |-> StoredConversation(n)]
       /\ conversations = IF n = 0 THEN {} ELSE SessionIds
  /\ pc = [r \in Tasks |-> "idle"]
  /\ kind = [r \in Tasks |-> "chat"]
  /\ request_data = [r \in Tasks |-> NoRequest]
  /\ message = [r \in Tasks |-> <<>>]
  /\ rule_response = [r \in Tasks |-> <<>>]
  /\ conversation_history = [r \in Tasks |-> <<>>]
  /\ knowledge_base = [r \in Tasks |-> <<>>]
  /\ response_data = [r \in Tasks |-> <<>>]
  /\ rl_client = [r \in Tasks |-> <<>>]
  /\ rl_result = [r \in Tasks |-> <<>>]
  /\ ai_request = [r \in Tasks |-> <<>>]
  /\ outcome = [r \in Tasks |-> <<>>]
  /\ http_status = [r \in Tasks |-> 0]
  /\ ai_calls = [r \in Tasks |-> 0]
  /\ increments = [r \in Tasks |-> 0]
  /\ gate_calls = [r \in Tasks |-> 0]
  /\ fault = [r \in Tasks |-> "none"]

\* one request against the stored conversation
ContextNext == Step(1)

ContextSpec == ContextInit /\ [][ContextNext]_vars

\* check_rate_limit alone: callers in different worker processes, each making
\* one call after the other
GateStep(r) ==
  \/ CallGate(r)
  \/ RL_Query(r)
  \/ RL_Compare(r)
  \/ RL_Increment(r)
  \/ NextCall(r)

GateNext == \E r \in Tasks : GateStep(r)

GateSpec == Init /\ [][GateNext]_vars

\* one request at a time, its text drawn from TextMessages as well
TextNext == ReceiveText(1) \/ Step(1)

TextSpec == Init /\ [][TextNext]_vars

(***************************************************************************)
(* Vocabulary of the claims                                                *)
(***************************************************************************)
Min(a, b) == IF a <= b THEN a ELSE b

IsChat(r) == kind[r] = "chat" /\ pc[r] # "idle"
ClientOf(r) == request_data[r].client_id

\* check_rate_limit calls for client c: in progress, returned, returned True
InGate(r) == pc[r] \in {"rl_query", "rl_compare", "rl_increment"}
GateReturned(c) == {r \in Tasks : rl_result[r] # <<>> /\ ClientOf(r) = c}
GateAllowed(c) == {r \in GateReturned(c) : rl_result[r][1]}

\* the message passes lines 66-77
ValidMessage(r) ==
  LET stripped == strip(request_data[r].message)
  IN  stripped # <<>> /\ Len(stripped) <= MaxMessageLen

UnknownClient(r) == ClientOf(r) \notin DOMAIN clients
InactiveClient(r) == ~UnknownClient(r) /\ ~clients[ClientOf(r)].is_active

\* the rule attempt of r ran and matched nothing
RuleMissed(r) == rule_response[r] # <<>> /\ rule_response[r][1].is_fallback
RuleMatched(r) == rule_response[r] # <<>> /\ ~rule_response[r][1].is_fallback

\* the Gemini call of r failed
AIFailed(r) == response_data[r] = <<AIFailure>>

Fallback(reply) ==
  [reply |-> reply, intent |-> None, is_ai |-> FALSE, is_fallback |-> TRUE, tokens_used |-> <<>>]

\* the words of a text: its maximal runs of word characters, lower-cased
WordsOf(text) ==
  LET t == lower(text)
      starts == {i \in DOMAIN t : IsWordChar(t[i]) /\ (i = 1 \/ ~IsWordChar(t[i - 1]))}
      ends == {i \in DOMAIN t : IsWordChar(t[i]) /\ (i = Len(t) \/ ~IsWordChar(t[i + 1]))}
  IN  [k \in 1..Cardinality(starts) |-> SubSeq(t, Kth(starts, k), Kth(ends, k))]

\* the words of every keyword of the catalog
KeywordWords ==
  [i \in DOMAIN intents_defined |->
     [k \in DOMAIN intents_defined[i].keywords |-> WordsOf(intents_defined[i].keywords[k])]]

\* the words ws contain the words of phrase, next to each other and in order
ContainsPhrase(ws, phrase) ==
  \E i \in 0..(Len(ws) - Len(phrase)) : SubSeq(ws, i + 1, i + Len(phrase)) = phrase

\* the intents (by position in the catalog as written) that have a keyword
\* occurring as whole words in the text
IntentsIn(text) ==
  LET ws == WordsOf(text)
  IN  {i \in DOMAIN intents_defined :
         \E k \in DOMAIN KeywordWords[i] : ContainsPhrase(ws, KeywordWords[i][k])}

\* the first of a set of intents by priority descending, then definition order
FirstByPriority(S) ==
  CHOOSE i \in S :
    \A j \in S \ {i} :
       \/ intents_defined[i].priority > intents_defined[j].priority
       \/ /\ intents_defined[i].priority = intents_defined[j].priority
          /\ i < j

\* the result of the rule engine when it matches intent i, and when it matches none
MatchOf(i) ==
  [reply |-> intents_defined[i].response_template, intent |-> intents_defined[i].name,
   is_fallback |-> FALSE]

NoMatch == [reply |-> RULE_FALLBACK_REPLY, intent |-> None, is_fallback |-> TRUE]

(***************************************************************************)
(* C1: for one client with limit L and counter 0, once n check_rate_limit  *)
(* calls have run in any interleaving of their steps, exactly min(n, L)    *)
(* returned True and the stored counter is min(n, L).                      *)
(***************************************************************************)
C1_AtomicGate ==
  \A c \in StoredClientIds :
    (\A r \in Tasks : ClientOf(r) = c => ~InGate(r)) =>
      LET n == Cardinality(GateReturned(c))
          L == clients[c].ai_requests_limit
      IN  /\ Cardinality(GateAllowed(c)) = Min(n, L)
          /\ clients[c].ai_requests_today = Min(n, L)

(***************************************************************************)
(* C2: a check_rate_limit call that no other call interleaves with returns *)
(* False and changes nothing when the counter has reached the limit, and   *)
(* otherwise adds exactly one to the counter and returns True; with limit  *)
(* 1 and counter 0, two calls one after the other return True, then False. *)
(***************************************************************************)
\* the step in which the call of r returns
C2_Returns(r) == rl_result[r] = <<>> /\ rl_result'[r] # <<>>

C2_Call(r) ==
  (C2_Returns(r) /\ ~UnknownClient(r)) =>
     LET c == ClientOf(r)
     IN  IF clients[c].ai_requests_today >= clients[c].ai_requests_limit
           THEN rl_result'[r] = <<FALSE>> /\ clients' = clients
           ELSE /\ rl_result'[r] = <<TRUE>>
                /\ clients' = [clients EXCEPT ![c].ai_requests_today = @ + 1]

C2_TrueThenFalse ==
  \A c \in StoredClientIds :
    (/\ clients[c].ai_requests_limit = 1
     /\ \A r \in Tasks : ClientOf(r) = c /\ rl_result[r] # <<>>)
    => \A r \in Tasks : rl_result[r] = <<r = 1>>

\* C2: every returning call acts as stated, and limit 1 gives True then False
C2_SequentialGate == [][\A r \in Tasks : C2_Call(r)]_vars /\ []C2_TrueThenFalse

C2_Witness ==
  /\ clients["kunde1"].ai_requests_limit = 1
  /\ \A r \in Tasks : ClientOf(r) = "kunde1" /\ kind[r] = "gate" /\ pc[r] = "done"
  /\ rl_result[1] = <<TRUE>>
  /\ \A r \in Tasks \ {1} : rl_result[r] = <<FALSE>>

(***************************************************************************)
(* C3: a chat request increments the usage counter if and only if it       *)
(* issues an AI call: a finished request that incremented has called the   *)
(* AI (also when the knowledge store failed), and no AI call is made       *)
(* without an increment.                                                   *)
(***************************************************************************)
C3_IncrementIffAICall ==
  \A r \in Tasks :
    IsChat(r) =>
      /\ ai_calls[r] > 0 => increments[r] > 0
      /\ pc[r] = "done" => (increments[r] > 0 => ai_calls[r] > 0)

(***************************************************************************)
(* C4: a request whose AI call never returns still ends, with the AI-error *)
(* fallback reply (the call is under a bounded timeout): such a request is *)
(* never left without a step to take.                                      *)
(***************************************************************************)
C4_AITimeout ==
  \A r \in Tasks : pc[r] = "ai_hung" => ENABLED Step(r)

(***************************************************************************)
(* C5: every request ends by returning a DecisionOutcome; no request ends  *)
(* with an error raised to the caller.                                     *)
(***************************************************************************)
C5_NeverRaises == \A r \in Tasks : pc[r] # "raised"

Replies ==
  {EMPTY_MESSAGE_REPLY, TOO_LONG_REPLY, QUOTA_REPLY, FINAL_FALLBACK_REPLY, CHAT_ERROR_REPLY,
   AI_ERROR_REPLY} \cup AIReplies \cup {intents[i].response_template : i \in DOMAIN intents}

IntentNames == {None, "ai_response"} \cup {intents[i].name : i \in DOMAIN intents}

IsDecisionOutcome(o) ==
  /\ DOMAIN o = {"reply", "intent", "is_ai", "is_fallback", "tokens_used"}
  /\ o.reply \in Replies
  /\ o.intent \in IntentNames
  /\ o.is_ai \in BOOLEAN
  /\ o.is_fallback \in BOOLEAN
  /\ o.tokens_used = <<>> \/ (Len(o.tokens_used) = 1 /\ o.tokens_used[1] \in Nat)

\* C5 as amended: a request ends either by returning a DecisionOutcome or,
\* when its message passes validation and its client is unknown or inactive,
\* by raising HTTP 404 or 403; nothing else is raised to the caller.
C5_OutcomeOrHttpError ==
  \A r \in Tasks :
    IsChat(r) =>
      /\ pc[r] = "raised" =>
           /\ ValidMessage(r)
           /\ outcome[r] = <<>>
           /\ \/ UnknownClient(r) /\ http_status[r] = 404
              \/ InactiveClient(r) /\ http_status[r] = 403
      /\ pc[r] = "done" =>
           /\ outcome[r] # <<>>
           /\ IsDecisionOutcome(outcome[r][1])
           /\ http_status[r] = 0
           /\ ~(ValidMessage(r) /\ (UnknownClient(r) \/ InactiveClient(r)))

C5_Witness ==
  \E r, q \in Tasks :
    /\ pc[r] = "raised" /\ http_status[r] = 404
    /\ pc[q] = "raised" /\ http_status[q] = 403

(***************************************************************************)
(* C6: when the history store or the knowledge store fails during a        *)
(* request, the request goes on with empty context: a rule-matching        *)
(* message gets its rule reply, an AI-eligible unmatched message gets its  *)
(* AI call, and the reply is not the error reply.                          *)
(***************************************************************************)
C6_DegradeToEmptyContext ==
  \A r \in Tasks :
    (IsChat(r) /\ pc[r] = "done" /\ fault[r] \in {"history", "knowledge"}) =>
      LET rule == RuleEngine_get_response(message[r])
      IN  /\ outcome[r][1].reply # CHAT_ERROR_REPLY
          /\ ~rule.is_fallback => outcome[r][1].reply = rule.reply
          /\ (rule.is_fallback /\ AIEligible(r) /\ rl_result[r] = <<TRUE>>) => ai_calls[r] = 1

\* what a request whose AI call failed has done to the quota
C7_Accounting(r) ==
  /\ rl_result[r] = <<TRUE>>
  /\ increments[r] = 1
  /\ ai_calls[r] = 1
  /\ clients[ClientOf(r)].ai_requests_today >= 1
  /\ pc[r] # "raised"

(***************************************************************************)
(* C7: when the AI call fails after the gate allowed it, the outcome is    *)
(* the AI-error reply (is_fallback, not is_ai, no tokens_used), nothing is *)
(* raised, and the request has consumed exactly one quota slot, which is   *)
(* not given back.                                                         *)
(***************************************************************************)
C7_AIFailureOutcome ==
  \A r \in Tasks :
    (IsChat(r) /\ AIFailed(r)) =>
      /\ C7_Accounting(r)
      /\ pc[r] = "done" => outcome[r] = <<Fallback(AI_ERROR_REPLY)>>

\* C7 as amended: the same, except that when storing the two turns then
\* fails the reply is the generic error reply (still is_fallback, not is_ai,
\* no tokens_used).
C7_AIFailureOutcomeUnlessSaveFails ==
  \A r \in Tasks :
    (IsChat(r) /\ AIFailed(r)) =>
      /\ C7_Accounting(r)
      /\ pc[r] = "done" =>
           outcome[r] = <<Fallback(IF fault[r] = "save" THEN CHAT_ERROR_REPLY
                                                        ELSE AI_ERROR_REPLY)>>

C7_Witness ==
  \E r \in Tasks :
    /\ IsChat(r) /\ AIFailed(r) /\ pc[r] = "done" /\ fault[r] = "none"
    /\ outcome[r] = <<Fallback(AI_ERROR_REPLY)>>
    /\ clients[ClientOf(r)].ai_requests_today = 1

(***************************************************************************)
(* C8: within one request the AI is called at most once, the counter is    *)
(* incremented at most once and the gate is entered at most once: no       *)
(* failure branch goes back to the gate or to the AI call.                 *)
(***************************************************************************)
C8_AtMostOneAttempt ==
  \A r \in Tasks :
    /\ ai_calls[r] <= 1
    /\ increments[r] <= 1
    /\ gate_calls[r] <= 1
    /\ (AIFailed(r) \/ fault[r] # "none") => pc[r] \in {"final", "save", "done"}

C8_Witness ==
  \E r \in Tasks :
    /\ IsChat(r) /\ AIFailed(r) /\ pc[r] = "done" /\ fault[r] = "save"
    /\ ai_calls[r] = 1 /\ increments[r] = 1 /\ gate_calls[r] = 1

\* the request has not touched the gate or the AI
C9_NoAI(r) ==
  /\ gate_calls[r] = 0
  /\ rl_result[r] = <<>>
  /\ increments[r] = 0
  /\ ai_calls[r] = 0
  /\ ~InGate(r)

(***************************************************************************)
(* C9: after a rule miss the gate and the AI are entered only if both the  *)
(* request's and the client's use_ai are true; otherwise the gate is not   *)
(* called, the counter is not incremented, no AI call is made and the      *)
(* outcome is the final fallback reply with is_fallback and no intent.     *)
(***************************************************************************)
C9_BothFlagsNeeded ==
  \A r \in Tasks :
    (IsChat(r) /\ RuleMissed(r)) =>
      /\ gate_calls[r] > 0 => (request_data[r].use_ai /\ clients[ClientOf(r)].use_ai)
      /\ ~(request_data[r].use_ai /\ clients[ClientOf(r)].use_ai) =>
           /\ C9_NoAI(r)
           /\ pc[r] = "done" => outcome[r] = <<Fallback(FINAL_FALLBACK_REPLY)>>

\* C9 as amended: the same, except that when storing the two turns fails
\* the reply is the generic error reply (still is_fallback, no intent).
C9_BothFlagsNeededUnlessSaveFails ==
  \A r \in Tasks :
    (IsChat(r) /\ RuleMissed(r)) =>
      /\ gate_calls[r] > 0 => (request_data[r].use_ai /\ clients[ClientOf(r)].use_ai)
      /\ ~(request_data[r].use_ai /\ clients[ClientOf(r)].use_ai) =>
           /\ C9_NoAI(r)
           /\ pc[r] = "done" =>
                outcome[r] = <<Fallback(IF fault[r] = "save" THEN CHAT_ERROR_REPLY
                                                             ELSE FINAL_FALLBACK_REPLY)>>

C9_Witness ==
  \E r, q \in Tasks :
    /\ IsChat(r) /\ RuleMissed(r) /\ pc[r] = "done"
    /\ request_data[r].use_ai /\ ~clients[ClientOf(r)].use_ai
    /\ outcome[r] = <<Fallback(FINAL_FALLBACK_REPLY)>>
    /\ IsChat(q) /\ RuleMissed(q) /\ pc[q] = "done"
    /\ ~request_data[q].use_ai /\ clients[ClientOf(q)].use_ai
    /\ outcome[q] = <<Fallback(FINAL_FALLBACK_REPLY)>>

(***************************************************************************)
(* C10: when the gate denies an AI-eligible unmatched request, the request *)
(* ends with the quota reply and is_fallback, makes no AI call and does    *)
(* not change the counter.                                                 *)
(***************************************************************************)
C10_DeniedOutcome ==
  \A r \in Tasks :
    (IsChat(r) /\ rl_result[r] = <<FALSE>>) =>
      /\ RuleMissed(r) /\ AIEligible(r)
      /\ pc[r] = "done"
      /\ outcome[r] = <<Fallback(QUOTA_REPLY)>>
      /\ ai_calls[r] = 0
      /\ increments[r] = 0
      /\ ai_request[r] = <<>>

\* the step in which the gate denies leaves every counter as it is
C10_DenialStep ==
  \A r \in Tasks :
    (rl_result[r] = <<>> /\ rl_result'[r] = <<FALSE>>) => clients' = clients

\* C10: a denial changes no counter and ends the request with the quota reply
C10_Denied == [][C10_DenialStep]_vars /\ []C10_DeniedOutcome

C10_Witness ==
  \E r, q \in Tasks :
    /\ IsChat(r) /\ rl_result[r] = <<FALSE>> /\ pc[r] = "done"
    /\ outcome[r] = <<Fallback(QUOTA_REPLY)>>
    /\ IsChat(q) /\ rl_result[q] = <<TRUE>> /\ ClientOf(q) = ClientOf(r)


\* what the rule engine matched for the message of r
C11_Matched(r) == _match_intent(_normalize(message[r]))[1]

\* the outcome of a rule match on intent i
C11_RuleOutcome(i) ==
  [reply |-> i.response_template, intent |-> i.name, is_ai |-> FALSE, is_fallback |-> FALSE,
   tokens_used |-> <<>>]

\* the request has not touched the gate, the counter or the AI
C11_NoAI(r) ==
  /\ gate_calls[r] = 0
  /\ rl_result[r] = <<>>
  /\ increments[r] = 0
  /\ ai_calls[r] = 0
  /\ ai_request[r] = <<>>
  /\ pc[r] \in {"final", "save", "done"}

(***************************************************************************)
(* C11: when a validated message matches an intent, the outcome is that    *)
(* intent's template and name with is_ai and is_fallback false, and the    *)
(* request calls neither the gate nor the AI and leaves the counter alone, *)
(* whatever the use_ai flags and the quota.                                *)
(***************************************************************************)
C11_RuleTerminal ==
  \A r \in Tasks :
    (IsChat(r) /\ RuleMatched(r)) =>
      /\ C11_NoAI(r)
      /\ pc[r] = "done" => outcome[r] = <<C11_RuleOutcome(C11_Matched(r))>>

\* C11 as amended: the same, except that when storing the two turns fails
\* the outcome is the generic error reply with is_fallback and no intent.
C11_RuleTerminalUnlessSaveFails ==
  \A r \in Tasks :
    (IsChat(r) /\ RuleMatched(r)) =>
      /\ C11_NoAI(r)
      /\ pc[r] = "done" =>
           outcome[r] = << IF fault[r] = "save" THEN Fallback(CHAT_ERROR_REPLY)
                                               ELSE C11_RuleOutcome(C11_Matched(r)) >>

C11_Witness ==
  \E r \in Tasks :
    /\ IsChat(r) /\ RuleMatched(r) /\ pc[r] = "done" /\ fault[r] = "none"
    /\ request_data[r].use_ai /\ clients[ClientOf(r)].use_ai
    /\ clients[ClientOf(r)].ai_requests_today < clients[ClientOf(r)].ai_requests_limit
    /\ outcome[r][1].intent = "greeting"
    /\ outcome[r][1].reply = "Hej! Hvordan kan jeg hjaelpe dig i dag?"
    /\ ~outcome[r][1].is_fallback

\* the AI answered and the answer became the response of the request
C12_AISucceeded(r) ==
  /\ ai_request[r] # <<>>
  /\ response_data[r] # <<>>
  /\ Get(response_data[r][1], "is_ai", FALSE)

\* the outcome of an AI answer T
C12_AIOutcome(r) ==
  LET d == response_data[r][1]
  IN  [reply |-> d.reply, intent |-> "ai_response", is_ai |-> TRUE, is_fallback |-> FALSE,
       tokens_used |-> <<FullPromptWords(ai_request[r][1]) + ReplyWordCount(d.reply)>>]

(***************************************************************************)
(* C12: when no rule matches, both use_ai flags are true, the gate allows  *)
(* and the AI returns a text T, the outcome is reply T, intent             *)
(* "ai_response", is_ai, not is_fallback, with tokens_used set.            *)
(***************************************************************************)
C12_AISuccessOutcome ==
  \A r \in Tasks :
    (IsChat(r) /\ C12_AISucceeded(r)) =>
      /\ RuleMissed(r) /\ AIEligible(r) /\ rl_result[r] = <<TRUE>>
      /\ response_data[r][1].reply \in AIReplies
      /\ pc[r] = "done" => outcome[r] = <<C12_AIOutcome(r)>>

\* C12 as amended: the same, except that when storing the two turns fails
\* the outcome is the generic error reply (is_fallback, not is_ai, no
\* tokens_used).
C12_AISuccessOutcomeUnlessSaveFails ==
  \A r \in Tasks :
    (IsChat(r) /\ C12_AISucceeded(r)) =>
      /\ RuleMissed(r) /\ AIEligible(r) /\ rl_result[r] = <<TRUE>>
      /\ response_data[r][1].reply \in AIReplies
      /\ pc[r] = "done" =>
           outcome[r] = << IF fault[r] = "save" THEN Fallback(CHAT_ERROR_REPLY)
                                               ELSE C12_AIOutcome(r) >>

C12_Witness ==
  \E r \in Tasks :
    /\ IsChat(r) /\ pc[r] = "done" /\ fault[r] = "none"
    /\ message[r] = <<"x", "y", "z", " ", "q">>
    /\ outcome[r][1].reply = "Her er svaret"
    /\ outcome[r][1].intent = "ai_response"
    /\ outcome[r][1].is_ai /\ ~outcome[r][1].is_fallback
    /\ outcome[r][1].tokens_used # <<>>


\* the message of r is empty or consists of whitespace only
C13_Blank(r) == \A i \in DOMAIN request_data[r].message : IsSpace(request_data[r].message[i])

(***************************************************************************)
(* C13: an empty or whitespace-only message always gets the "write         *)
(* something" reply with is_fallback and no intent; such a request never   *)
(* reaches the rule matcher, the gate, the stores or the AI and does not   *)
(* increment the counter, whatever the client and the flags.               *)
(***************************************************************************)
C13_BlankMessage ==
  \A r \in Tasks :
    (IsChat(r) /\ C13_Blank(r)) =>
      /\ pc[r] \in {"validate", "done"}
      /\ pc[r] = "done" => outcome[r] = <<Fallback(EMPTY_MESSAGE_REPLY)>>
      /\ rule_response[r] = <<>>
      /\ gate_calls[r] = 0 /\ rl_result[r] = <<>> /\ increments[r] = 0
      /\ ai_calls[r] = 0 /\ ai_request[r] = <<>>
      /\ conversation_history[r] = <<>> /\ knowledge_base[r] = <<>>
      /\ fault[r] = "none" /\ http_status[r] = 0
      /\ RuleEngine_get_response(strip(request_data[r].message)) =
           [reply |-> EMPTY_MESSAGE_REPLY, intent |-> None, is_fallback |-> TRUE]

C13_Witness ==
  \E r, q \in Tasks :
    /\ IsChat(r) /\ pc[r] = "done" /\ request_data[r].message = <<" ", " ">>
    /\ ClientOf(r) = "ukendt" /\ request_data[r].use_ai
    /\ outcome[r] = <<Fallback(EMPTY_MESSAGE_REPLY)>>
    /\ IsChat(q) /\ pc[q] = "done" /\ request_data[q].message = <<>>
    /\ ClientOf(q) = "kunde1" /\ request_data[q].use_ai
    /\ outcome[q] = <<Fallback(EMPTY_MESSAGE_REPLY)>>


\* the trimmed length of the message of r
C14_Len(r) == Len(strip(request_data[r].message))

\* a message longer than the bound is answered by validation alone
C14_Rejected(r) ==
  /\ pc[r] \in {"validate", "done"}
  /\ pc[r] = "done" => outcome[r] = <<Fallback(TOO_LONG_REPLY)>>
  /\ rule_response[r] = <<>>
  /\ gate_calls[r] = 0 /\ rl_result[r] = <<>> /\ increments[r] = 0
  /\ ai_calls[r] = 0 /\ ai_request[r] = <<>>

\* validation lets the message through, trimmed
C14_Passed(r) ==
  /\ pc[r] = "done" => outcome[r][1].reply \notin {TOO_LONG_REPLY, EMPTY_MESSAGE_REPLY}
  /\ pc[r] # "validate" => message[r] = strip(request_data[r].message)

(***************************************************************************)
(* C14: a message whose trimmed length exceeds 1000 gets the "too long"    *)
(* reply with is_fallback and never reaches the rule matcher, the gate or  *)
(* the AI; a message of trimmed length 1 to 1000 (1000 included) passes    *)
(* validation and its request performs the rule attempt.                   *)
(***************************************************************************)
C14_LengthBound ==
  \A r \in Tasks :
    IsChat(r) =>
      /\ C14_Len(r) > MaxMessageLen => C14_Rejected(r)
      /\ C14_Len(r) \in 1..MaxMessageLen =>
           /\ C14_Passed(r)
           /\ pc[r] \in {"done", "raised"} => rule_response[r] # <<>>

\* C14 as amended: a message of trimmed length 1 to 1000 passes validation
\* and goes on to the client lookup; its request performs the rule attempt
\* when the client is known and active and the conversation and history
\* queries succeed.
C14_LengthBoundThenLookup ==
  \A r \in Tasks :
    IsChat(r) =>
      /\ C14_Len(r) > MaxMessageLen => C14_Rejected(r)
      /\ C14_Len(r) \in 1..MaxMessageLen =>
           /\ C14_Passed(r)
           /\ pc[r] = "raised" => (UnknownClient(r) \/ InactiveClient(r))
           /\ pc[r] = "done" =>
                \/ rule_response[r] # <<>>
                \/ fault[r] \in {"conversation", "history"}

C14_Witness ==
  \E r \in Tasks :
    /\ IsChat(r) /\ pc[r] = "done" /\ fault[r] = "none"
    /\ Len(request_data[r].message) > MaxMessageLen
    /\ C14_Len(r) = MaxMessageLen
    /\ rule_response[r] # <<>>
    /\ outcome[r][1].reply \in {FINAL_FALLBACK_REPLY} \cup AIReplies


(***************************************************************************)
(* C15: for a message with whole-word keywords of two or more intents the  *)
(* matcher returns the first of them by priority descending, then          *)
(* definition order, wherever and however often the keywords occur.        *)
(***************************************************************************)
C15_FirstMatchWins ==
  \A r \in Tasks :
    (IsChat(r) /\ rule_response[r] # <<>>) =>
      LET S == IntentsIn(message[r])
      IN  Cardinality(S) >= 2 => rule_response[r][1] = MatchOf(FirstByPriority(S))

\* prices (two keywords, first in the message) against opening_hours (one
\* keyword, last): equal priority, opening_hours is defined earlier
C15_Witness ==
  \E r \in Tasks :
    /\ IsChat(r) /\ pc[r] = "done"
    /\ message[r] = LeadKeywords[3] \o <<",", " ">> \o NextKeywords[3] \o <<" ">> \o LeadKeywords[2]
    /\ IntentsIn(message[r]) = {2, 3}
    /\ outcome[r][1].intent = "opening_hours"

(***************************************************************************)
(* C16: a keyword matches only as a whole word: the matched intent has a   *)
(* keyword whose words occur in the message bounded by non-word characters *)
(* or the ends of the text, never only inside a longer word, and a message *)
(* with no whole-word keyword of any intent gets NoMatch.                  *)
(***************************************************************************)
C16_WholeWordOnly ==
  \A r \in Tasks :
    (IsChat(r) /\ rule_response[r] # <<>>) =>
      LET S == IntentsIn(message[r])
      IN  /\ RuleMatched(r) => \E i \in S : rule_response[r][1] = MatchOf(i)
          /\ S = {} => rule_response[r][1] = NoMatch

\* "book" inside "bookshelf"
C16_Witness ==
  \E r \in Tasks :
    /\ IsChat(r) /\ pc[r] = "done"
    /\ message[r] = <<"b", "o", "o", "k", "s", "h", "e", "l", "f">>
    /\ <<"b", "o", "o", "k">> \in Range(intents_defined[4].keywords)
    /\ rule_response[r] = <<NoMatch>>
    /\ outcome[r][1].is_fallback

(***************************************************************************)
(* C17: a message that contains a keyword of one intent as a whole word    *)
(* and no keyword of any other intent is matched to that intent, whatever  *)
(* its letter case and the punctuation around the keyword.                 *)
(***************************************************************************)
C17_SingleIntent ==
  \A r \in Tasks :
    (IsChat(r) /\ rule_response[r] # <<>>) =>
      LET S == IntentsIn(message[r])
      IN  \A i \in S : S = {i} => rule_response[r][1] = MatchOf(i)

C17_Witness ==
  \E r \in Tasks :
    /\ IsChat(r) /\ pc[r] = "done"
    /\ request_data[r].message = <<"(">> \o upper(LeadKeywords[2]) \o <<")", "!">>
    /\ IntentsIn(message[r]) = {2}
    /\ outcome[r][1].intent = "opening_hours"
    /\ ~outcome[r][1].is_fallback


\* the AI was not called by r, or its call failed
C18_NoAIAnswer(r) == ai_calls[r] = 0 \/ AIFailed(r)

C19_IsAIMeaning ==
  \A r \in Tasks :
    (IsChat(r) /\ pc[r] = "done" /\ outcome[r][1].is_ai) =>
      /\ ~outcome[r][1].is_fallback
      /\ ai_calls[r] = 1 /\ ai_request[r] # <<>>
      /\ \E reply \in AIReplies :
           /\ response_data[r] = <<AISuccess(reply, ai_request[r][1])>>
           /\ outcome[r][1].reply = reply

C19_Witness ==
  \E r \in Tasks :
    /\ IsChat(r) /\ pc[r] = "done"
    /\ outcome[r][1].is_ai /\ ~outcome[r][1].is_fallback
    /\ ai_calls[r] = 1

(***************************************************************************)
(* C20: in every returned outcome, tokens_used is present if and only if   *)
(* is_ai is true.                                                          *)
(***************************************************************************)
C20_TokensIffAI ==
  \A r \in Tasks :
    (IsChat(r) /\ pc[r] = "done") =>
      (outcome[r][1].tokens_used # <<>>) = outcome[r][1].is_ai

\* an AI answer with tokens_used next to a rule answer without
C20_Witness ==
  \E r, q \in Tasks :
    /\ IsChat(r) /\ pc[r] = "done" /\ outcome[r][1].is_ai
    /\ outcome[r][1].tokens_used # <<>> /\ outcome[r][1].tokens_used[1] > 0
    /\ IsChat(q) /\ pc[q] = "done" /\ RuleMatched(q) /\ ~outcome[q][1].is_ai
    /\ outcome[q][1].tokens_used = <<>>


\* the check_rate_limit call of r for an id without a row returns in this step
C21_UnknownReturns(r) ==
  /\ UnknownClient(r)
  /\ rl_result[r] = <<>>
  /\ rl_result'[r] # <<>>

C21_UnknownStep ==
  \A r \in Tasks :
    C21_UnknownReturns(r) =>
      /\ rl_result'[r] = <<FALSE>>
      /\ clients' = clients
      /\ pc'[r] = "done"

C21_UnknownState ==
  \A r \in Tasks :
    (kind[r] = "gate" /\ UnknownClient(r) /\ pc[r] # "idle") =>
      /\ pc[r] \in {"rl_query", "done"}
      /\ pc[r] = "done" => rl_result[r] = <<FALSE>>
      /\ increments[r] = 0
      /\ http_status[r] = 0 /\ fault[r] = "none"

\* C21: check_rate_limit for an id without a row returns False, raises nothing
\* and changes no client's counter
C21_UnknownDenied == [][C21_UnknownStep]_vars /\ []C21_UnknownState

C21_Witness ==
  \E r \in Tasks :
    /\ kind[r] = "gate" /\ ClientOf(r) = "ukendt" /\ pc[r] = "done"
    /\ rl_result[r] = <<FALSE>>
    /\ \E c \in StoredClientIds : clients[c].ai_requests_today > 0


(***************************************************************************)
(* C22: a fault raised while a request is processed (a failing store call) *)
(* is caught by the handler and turned into the outcome of the final       *)
(* fallback: the "Jeg forstod ikke helt ..." reply, is_fallback, no        *)
(* intent.                                                                 *)
(***************************************************************************)
C22_FaultGivesFinalFallback ==
  \A r \in Tasks :
    (IsChat(r) /\ fault[r] # "none") =>
      /\ pc[r] = "done" /\ http_status[r] = 0
      /\ outcome[r] = <<Fallback(FINAL_FALLBACK_REPLY)>>

\* C22 as amended: the fault is caught and turned into the generic error
\* reply "Der opstod en fejl. Proev igen senere." with is_fallback and no
\* intent, which is not the reply of the final fallback.
C22_FaultGivesErrorReply ==
  \A r \in Tasks :
    (IsChat(r) /\ fault[r] # "none") =>
      /\ pc[r] = "done" /\ http_status[r] = 0
      /\ outcome[r] = <<Fallback(CHAT_ERROR_REPLY)>>
      /\ CHAT_ERROR_REPLY # FINAL_FALLBACK_REPLY

\* a fault while loading the conversation and a fault while saving the turns
C22_Witness ==
  \E r, q \in Tasks :
    /\ IsChat(r) /\ fault[r] = "conversation" /\ outcome[r] = <<Fallback(CHAT_ERROR_REPLY)>>
    /\ IsChat(q) /\ fault[q] = "save" /\ outcome[q] = <<Fallback(CHAT_ERROR_REPLY)>>


(***************************************************************************)
(* C23: the history store and the knowledge store are read only after the  *)
(* rule matcher has missed and the gate has allowed the call: a request    *)
(* is at one of the two reads only then, so a request ending in a rule     *)
(* hit, a final fallback or a quota denial has read no context store.      *)
(***************************************************************************)
C23_ContextAfterGate ==
  \A r \in Tasks :
    (IsChat(r) /\ pc[r] \in {"get_history", "get_knowledge"}) =>
      RuleMissed(r) /\ rl_result[r] = <<TRUE>>


\* the m most recent of the stored rows, oldest first
C24_Recent(rows, m) ==
  LET n == Min(m, Len(rows))
  IN  [i \in 1..n |-> rows[Len(rows) - n + i]]

\* the step in which r reads the history: it keeps the 10 most recent turns
C24_ReadStep ==
  \A r \in Tasks :
    (pc[r] = "get_history" /\ pc'[r] = "rule") =>
      LET rows == C24_Recent(messages[request_data[r].session_id], 10)
      IN  conversation_history'[r] =
            [i \in DOMAIN rows |-> [role |-> rows[i].role, content |-> rows[i].content]]

\* the step in which r calls the AI: it forwards the 5 most recent turns and
\* the first 10 knowledge texts
C24_SendStep ==
  \A r \in Tasks :
    (ai_request[r] = <<>> /\ ai_request'[r] # <<>>) =>
      LET rows == C24_Recent(messages[request_data[r].session_id], 5)
          texts == KnowledgeTexts(ClientOf(r))
          sent == ai_request'[r][1]
      IN  /\ sent.chat_history =
                [i \in DOMAIN rows |->
                   [role |-> IF rows[i].role = "assistant" THEN "model" ELSE "user",
                    parts |-> rows[i].content]]
          /\ sent.knowledge = [i \in 1..Min(10, Len(texts)) |-> texts[i]]

\* C24: the history forwarded to the AI is the min(5, length) most recent
\* stored turns, oldest first, and the knowledge the first min(10, count) texts
C24_ForwardedContext == [][C24_ReadStep /\ C24_SendStep]_vars

\* 12 turns stored and 11 knowledge texts: turns 8 to 12 and texts 1 to 10 go out
C24_Witness ==
  \E r \in Tasks :
    /\ ai_request[r] # <<>>
    /\ pc[r] = "ai_wait"
    /\ Len(messages[request_data[r].session_id]) = 12
    /\ Len(KnowledgeTexts(ClientOf(r))) = 11
    /\ Len(ai_request[r][1].chat_history) = 5
    /\ ai_request[r][1].chat_history[1].parts = <<"t", "0", "8">>
    /\ ai_request[r][1].chat_history[5].parts = <<"t", "1", "2">>
    /\ ai_request[r][1].chat_history[5].role = "model"
    /\ Len(ai_request[r][1].knowledge) = 10
    /\ ai_request[r][1].knowledge[10] = <<"k", "1", "0">>


\* a step of the call of r leaves the rows of all other clients as they are
C25_FrameStep ==
  \A r \in Tasks :
    pc'[r] # pc[r] =>
      \A c \in StoredClientIds : c # ClientOf(r) => clients'[c] = clients[c]

\* the call of r reads the row of its own client and decides on that row alone
C25_OwnRowStep ==
  \A r \in Tasks :
    /\ (rl_client[r] = <<>> /\ rl_client'[r] # <<>>) => rl_client'[r] = <<clients[ClientOf(r)]>>
    /\ (rl_result[r] = <<>> /\ rl_result'[r] # <<>> /\ ~UnknownClient(r)) =>
         rl_result'[r] =
           << rl_client[r][1].ai_requests_today < rl_client[r][1].ai_requests_limit >>

\* a call that has started can always take its next step, whatever the calls
\* for other clients are doing
C25_NeverBlocked ==
  \A r \in Tasks :
    InGate(r) => ENABLED (RL_Query(r) \/ RL_Compare(r) \/ RL_Increment(r))

\* C25: a check_rate_limit call changes only its own client's row, decides on
\* that row alone and never waits for a call for another client
C25_TenantsIndependent == [][C25_FrameStep /\ C25_OwnRowStep]_vars /\ []C25_NeverBlocked

\* a call for kunde2 has completed while a call for kunde1 is still pending
C25_Witness ==
  \E r, q \in Tasks :
    /\ kind[r] = "gate" /\ ClientOf(r) = "kunde1" /\ pc[r] = "rl_increment"
    /\ kind[q] = "gate" /\ ClientOf(q) = "kunde2" /\ pc[q] = "done"
    /\ rl_result[q] = <<TRUE>>
    /\ clients["kunde2"].ai_requests_today = 1
    /\ clients["kunde1"].ai_requests_today = 0


\* a step leaves every limit alone, and a counter either alone or one higher,
\* the latter in the step in which a call for that client returns True
C26_CounterStep ==
  \A c \in StoredClientIds :
    /\ clients'[c].ai_requests_limit = clients[c].ai_requests_limit
    /\ \/ clients'[c].ai_requests_today = clients[c].ai_requests_today
       \/ /\ clients'[c].ai_requests_today = clients[c].ai_requests_today + 1
          /\ \E r \in Tasks :
               ClientOf(r) = c /\ rl_result[r] = <<>> /\ rl_result'[r] = <<TRUE>>

\* C26: no step decreases or resets a counter or changes a limit; a counter
\* changes only by +1, in the step of an allowed check_rate_limit call
C26_MonotoneCounter == [][C26_CounterStep]_vars


\* the request of r ends in this step by storing its two turns: the user
\* message, then the assistant reply carrying what the outcome carries
C27_Appends(r, s) ==
  /\ pc[r] = "save" /\ pc'[r] = "done"
  /\ request_data[r].session_id = s
  /\ response_data[r] # <<>>
  /\ outcome'[r] = <<ChatResponse(response_data[r][1])>>
  /\ LET o == outcome'[r][1]
     IN  messages'[s] = messages[s] \o
           << [role |-> "user", content |-> message[r], intent |-> None, is_ai |-> FALSE,
               tokens_used |-> <<>>],
              [role |-> "assistant", content |-> o.reply, intent |-> o.intent, is_ai |-> o.is_ai,
               tokens_used |-> o.tokens_used] >>

\* a step changes the stored turns of a conversation only by such an append
C27_AppendStep ==
  \A s \in SessionIds :
    messages'[s] # messages[s] => \E r \in Tasks : C27_Appends(r, s)

\* a request that ended by validation, quota denial, HTTP error or a caught
\* fault stored nothing: its step left the stored turns alone
C27_NothingStep ==
  \A r \in Tasks :
    (pc[r] # pc'[r] /\ pc'[r] \in {"done", "raised"} /\ pc[r] # "save") => messages' = messages

\* a caught fault while saving stores nothing either
C27_FaultStep ==
  \A r \in Tasks : fault'[r] # fault[r] => messages' = messages

\* a request that ended with its decided outcome stored exactly its two turns
C27_SavedStep ==
  \A r \in Tasks :
    (pc[r] = "save" /\ pc'[r] = "done" /\ fault'[r] = fault[r])
      => C27_Appends(r, request_data[r].session_id)

\* C27: stored turns are only appended to, two per completed request (user
\* turn, then assistant turn carrying the outcome) or none, once the outcome
\* has been decided
C27_AppendOnly ==
  [][C27_AppendStep /\ C27_NothingStep /\ C27_FaultStep /\ C27_SavedStep]_vars

\* two requests have each appended their two turns
C27_Witness ==
  /\ Len(messages["s1"]) = 4
  /\ \A r \in Tasks : IsChat(r) /\ pc[r] = "done" /\ fault[r] = "none"
  /\ messages["s1"][1].role = "user" /\ messages["s1"][2].role = "assistant"
  /\ messages["s1"][3].role = "user" /\ messages["s1"][4].role = "assistant"
  /\ \E r \in Tasks : messages["s1"][4].content = outcome[r][1].reply /\ outcome[r][1].is_ai

=============================================================================
